---- MODULE Spec2Model ----
(***************************************************************************)
(* jwtauth: a chi middleware that extracts a JWT from a request, verifies  *)
(* it with jwt-go (v2 API: Token.Claims is a map, Parser is pluggable) and *)
(* either answers 401 or calls the next handler with an augmented context. *)
(*                                                                         *)
(* Strings are sequences of symbols.  A letter, a space, a newline or "."  *)
(* is one byte; a base64url segment of a token is one symbol of at least   *)
(* one byte that contains no ".".  The Authorization values of the model   *)
(* keep segment symbols behind their first seven bytes, so byte offsets    *)
(* and symbol offsets agree wherever the code slices.                      *)
(***************************************************************************)
EXTENDS Integers, Sequences, FiniteSets, TLC

VARIABLES ja, paramAliases, now, r, ctx, pc, out, api, procs, mem

vars == <<ja, paramAliases, now, r, ctx, pc, out, api, procs, mem>>

(***************************************************************************)
(* Bounds of the model.                                                    *)
(***************************************************************************)
MaxNow == 2        \* the clock runs over 0..MaxNow
MaxAliases == 2    \* longest alias list given to Handle

EmptyStr == <<>>

\* errors.New("unauthorized token"): an error value is its message
errUnauthorized == "unauthorized token"

(***************************************************************************)
(* Keys are byte slices: the nil slice, the empty slice, two shared        *)
(* secrets and one RSA pair in PEM form.                                   *)
(***************************************************************************)
NilKey == "nil"
EmptyKey == ""
SecretKeys == {"k1", "k2"}
PrivKeys == {"priv1"}
PubKeys == {"pub1"}
Keys == SecretKeys \cup PrivKeys \cup PubKeys

PublicOf(priv) == IF priv = "priv1" THEN "pub1" ELSE NilKey

KeyLen(k) == IF k \in {NilKey, EmptyKey} THEN 0 ELSE 1

\* the bytes of a key: the nil slice and the empty slice hold the same bytes
KeyBytes(k) == IF k = NilKey THEN EmptyKey ELSE k

(***************************************************************************)
(* jwt-go signing methods.  A method value is its registered name; the     *)
(* registry hands out one value per name, so comparing methods compares    *)
(* names.  GetSigningMethod of an unregistered name is nil.                *)
(***************************************************************************)
NilMethod == "nil"
HmacAlgs == {"HS256", "HS384"}
RsaAlgs == {"RS256"}
RegisteredAlgs == HmacAlgs \cup RsaAlgs
UnregisteredAlg == "XS999"

GetSigningMethod(alg) == IF alg \in RegisteredAlgs THEN alg ELSE NilMethod

NoErr == "nil"

\* EncodeSegment: the base64url text of some bytes, one symbol
EncodeSegment(text) == "b64(" \o text \o ")"

\* the bytes of a string of symbols
RECURSIVE Flatten(_)
Flatten(s) == IF s = <<>> THEN "" ELSE s[1] \o Flatten(Tail(s))

\* SigningMethod.Sign(signingString, key): a MAC or signature is a value
\* determined by the method, the key bytes and the signed string.
MethodSign(method, signingString, key) ==
  IF method \in HmacAlgs
  THEN [sig |-> EncodeSegment(method \o ":" \o KeyBytes(key) \o ":"
                                \o Flatten(signingString)),
        err |-> NoErr]
  ELSE IF key \in PrivKeys
       THEN [sig |-> EncodeSegment(method \o ":" \o key \o ":"
                                     \o Flatten(signingString)),
             err |-> NoErr]
       ELSE [sig |-> "", err |-> "invalid key"]

\* SigningMethod.Verify(signingString, signature, key)
MethodVerify(method, signingString, signature, key) ==
  IF method \in HmacAlgs
  THEN IF signature = MethodSign(method, signingString, key).sig
       THEN NoErr ELSE "signature is invalid"
  ELSE IF key \notin PubKeys
       THEN "invalid key"
       ELSE IF \E priv \in PrivKeys :
                 /\ PublicOf(priv) = key
                 /\ signature = MethodSign(method, signingString, priv).sig
            THEN NoErr ELSE "crypto/rsa: verification error"

(***************************************************************************)
(* Claim values carry their Go dynamic type.  encoding/json writes int64   *)
(* and float64 as a JSON number and reads a JSON number back as float64,   *)
(* or as json.Number when the parser has UseJSONNumber set.                *)
(***************************************************************************)
Int64(n) == [type |-> "int64", val |-> n]
Float64(n) == [type |-> "float64", val |-> n]
JsonNumber(n) == [type |-> "json.Number", val |-> n]
GoString(n) == [type |-> "string", val |-> n]   \* the decimal text of n

JsonMarshalValue(v) ==
  IF v.type = "string" THEN [kind |-> "string", val |-> v.val]
  ELSE [kind |-> "number", val |-> v.val]

JsonUnmarshalValue(j, useNumber) ==
  IF j.kind = "string" THEN GoString(j.val)
  ELSE IF useNumber THEN JsonNumber(j.val) ELSE Float64(j.val)

JsonMarshal(claims) == [k \in DOMAIN claims |-> JsonMarshalValue(claims[k])]

JsonUnmarshal(json, useNumber) ==
  [k \in DOMAIN json |-> JsonUnmarshalValue(json[k], useNumber)]

\* the JSON text of a claim set: json.Marshal writes the keys of a map sorted
ClaimNames == <<"exp", "nbf">>

JsonValueText(j) ==
  IF j.kind = "string" THEN "\"" \o ToString(j.val) \o "\""
  ELSE ToString(j.val)

RECURSIVE JsonMembers(_, _)
JsonMembers(json, i) ==
  IF i > Len(ClaimNames) THEN ""
  ELSE LET name == ClaimNames[i]
           rest == JsonMembers(json, i + 1)
           this == IF name \in DOMAIN json
                   THEN "\"" \o name \o "\":" \o JsonValueText(json[name])
                   ELSE ""
       IN IF this = "" THEN rest
          ELSE IF rest = "" THEN this
          ELSE this \o "," \o rest

JsonText(json) == "{" \o JsonMembers(json, 1) \o "}"

\* the header jwt.New(method) builds, and its JSON text
NewHeader(alg) == [alg |-> alg, typ |-> "JWT"]

HeaderText(h) == "{\"alg\":\"" \o h.alg \o "\",\"typ\":\"" \o h.typ \o "\"}"

(***************************************************************************)
(* Token.SignedString(key): header segment, claims segment and signature   *)
(* segment joined by ".".  A signing failure yields the empty string and   *)
(* the error.                                                              *)
(***************************************************************************)
SigningString(header, claims) ==
  <<EncodeSegment(HeaderText(header)), ".",
    EncodeSegment(JsonText(JsonMarshal(claims)))>>

\* json.Marshal fails on a value that has no JSON form, such as a channel
Chan == [type |-> "chan", val |-> 0]

JsonMarshalErr(claims) ==
  IF \E k \in DOMAIN claims : claims[k].type = "chan"
  THEN "json: unsupported type: chan int"
  ELSE NoErr

SignedString(method, claims, key) ==
  IF JsonMarshalErr(claims) # NoErr
  THEN [str |-> EmptyStr, err |-> JsonMarshalErr(claims)]
  ELSE LET sstr == SigningString(NewHeader(method), claims)
           s == MethodSign(method, sstr, key)
       IN IF s.err # NoErr
          THEN [str |-> EmptyStr, err |-> s.err]
          ELSE [str |-> sstr \o <<".", s.sig>>, err |-> NoErr]

(***************************************************************************)
(* The claim sets and token strings the model draws from.                  *)
(***************************************************************************)
ClaimTimes == {1}

ExpValues == {Int64(n) : n \in ClaimTimes} \cup {GoString(n) : n \in ClaimTimes}
NbfValues == {Int64(n) : n \in ClaimTimes}

NoClaims == [k \in {} |-> Int64(0)]

ClaimSets ==
  {NoClaims}
  \cup {[k \in {"exp"} |-> e] : e \in ExpValues}
  \cup {[k \in {"nbf"} |-> n] : n \in NbfValues}
  \cup {[k \in {"exp", "nbf"} |-> IF k = "exp" THEN e ELSE n] :
          e \in ExpValues, n \in NbfValues}

JsonClaimSets == {JsonMarshal(c) : c \in ClaimSets}

HeaderAlgs == RegisteredAlgs \cup {UnregisteredAlg}

\* every string some holder of some key can sign
SignedBy(alg, k) ==
  IF SignedString(alg, NoClaims, k).err # NoErr THEN {}
  ELSE {SignedString(alg, c, k).str : c \in ClaimSets}

SignedTokens == UNION {SignedBy(alg, k) : alg \in RegisteredAlgs, k \in Keys}

\* strings nobody signed: wrong number of segments, undecodable segments,
\* an unregistered algorithm, a signature that is not one
UnsignedTokens ==
  { <<"x">>,
    <<"x", ".", "y">>,
    <<"x", ".", "y", ".", "z">>,
    SigningString(NewHeader(UnregisteredAlg), NoClaims) \o <<".", "z">>,
    SigningString(NewHeader("HS256"), NoClaims) \o <<".", "z">> }

TokenStrings == SignedTokens \cup UnsignedTokens

(***************************************************************************)
(* strings.Split(s, sep)                                                   *)
(***************************************************************************)
RECURSIVE Split(_, _)
Split(s, sep) ==
  IF \E i \in 1..Len(s) : s[i] = sep
  THEN LET i == CHOOSE i \in 1..Len(s) :
                   s[i] = sep /\ \A j \in 1..(i - 1) : s[j] # sep
       IN <<SubSeq(s, 1, i - 1)>> \o Split(SubSeq(s, i + 1, Len(s)), sep)
  ELSE <<s>>

(***************************************************************************)
(* jwt.Token and Parser.Parse of jwt-go.                                   *)
(***************************************************************************)
NoMap == [k \in {} |-> 0]

\* the key Parse handed to Verify, recorded beside its results; NoKey while
\* Parse has not reached the key lookup
NoKey == "none"

\* a *jwt.Token; isNil marks the nil pointer, whose fields are never read
NilToken ==
  [isNil |-> TRUE, Raw |-> EmptyStr, Method |-> NilMethod, Header |-> NoMap,
   Claims |-> NoClaims, Valid |-> FALSE]

NewToken(raw) == [NilToken EXCEPT !.isNil = FALSE, !.Raw = raw]

DefaultParser == [isNil |-> FALSE, UseJSONNumber |-> FALSE]
NilParser == [isNil |-> TRUE, UseJSONNumber |-> FALSE]

\* DecodeSegment followed by json decoding of a header segment
HeaderDecodable(seg) ==
  /\ Len(seg) = 1
  /\ \E a \in HeaderAlgs : EncodeSegment(HeaderText(NewHeader(a))) = seg[1]

DecodeHeader(seg) ==
  NewHeader(CHOOSE a \in HeaderAlgs :
              EncodeSegment(HeaderText(NewHeader(a))) = seg[1])

ClaimsDecodable(seg) ==
  /\ Len(seg) = 1
  /\ \E j \in JsonClaimSets : EncodeSegment(JsonText(j)) = seg[1]

DecodeClaims(seg, useNumber) ==
  JsonUnmarshal(CHOOSE j \in JsonClaimSets :
                  EncodeSegment(JsonText(j)) = seg[1],
                useNumber)

\* the numeric-date reading Parse applies to "exp" and "nbf"
NumericDate(claims, name) ==
  IF name \in DOMAIN claims /\ claims[name].type \in {"json.Number", "float64"}
  THEN [ok |-> TRUE, val |-> claims[name].val]
  ELSE [ok |-> FALSE, val |-> 0]

\* the expiry test off by one: a token is refused in its last second
ValidationErrStrict(exp, nbf, verifyErr, clock) ==
  IF verifyErr # NoErr THEN verifyErr
  ELSE IF nbf.ok /\ clock < nbf.val THEN "token is not valid yet"
  ELSE IF exp.ok /\ clock >= exp.val THEN "token is expired"
  ELSE NoErr

ValidationErr(exp, nbf, verifyErr, clock) ==
  IF verifyErr # NoErr THEN verifyErr
  ELSE IF nbf.ok /\ clock < nbf.val THEN "token is not valid yet"
  ELSE IF exp.ok /\ clock > exp.val THEN "token is expired"
  ELSE NoErr

\* The method value ja.keyFunc is a closure over its receiver; Parse is given
\* the receiver and calls keyFunc on it.

\* keyFunc that tests verifyKey for nil only
keyFuncNilOnly(a, t) == IF a.verifyKey # NilKey THEN a.verifyKey ELSE a.signKey

\* keyFunc that never looks at verifyKey
keyFuncSignKey(a, t) == a.signKey

keyFunc(a, t) ==
  IF a.verifyKey # NilKey /\ KeyLen(a.verifyKey) > 0
  THEN a.verifyKey
  ELSE a.signKey

ParserParse(p, tokenString, receiver, clock) ==
  LET parts == Split(tokenString, ".") IN
  IF Len(parts) # 3
  THEN [token |-> NilToken, key |-> NoKey,
        err |-> "token contains an invalid number of segments"]
  ELSE
  LET t0 == NewToken(tokenString) IN
  IF ~HeaderDecodable(parts[1])
  THEN [token |-> t0, key |-> NoKey, err |-> "malformed header"]
  ELSE
  LET t1 == [t0 EXCEPT !.Header = DecodeHeader(parts[1])] IN
  IF ~ClaimsDecodable(parts[2])
  THEN [token |-> t1, key |-> NoKey, err |-> "malformed claims"]
  ELSE
  LET t2 == [t1 EXCEPT !.Claims = DecodeClaims(parts[2], p.UseJSONNumber)]
      t3 == [t2 EXCEPT !.Method = GetSigningMethod(t2.Header.alg)]
  IN
  IF t3.Method = NilMethod
  THEN [token |-> t3, key |-> NoKey,
        err |-> "signing method (alg) is unavailable."]
  ELSE
  LET key == keyFunc(receiver, t3)
      exp == NumericDate(t3.Claims, "exp")
      nbf == NumericDate(t3.Claims, "nbf")
      verifyErr == MethodVerify(t3.Method, parts[1] \o <<".">> \o parts[2],
                                parts[3][1], key)
      vErr == ValidationErr(exp, nbf,
                IF Len(parts[3]) = 1 THEN verifyErr
                ELSE "illegal base64 data", clock)
  IN IF vErr = NoErr
     THEN [token |-> [t3 EXCEPT !.Valid = TRUE], key |-> key, err |-> NoErr]
     ELSE [token |-> t3, key |-> key, err |-> vErr]

(***************************************************************************)
(* JwtAuth: New, NewWithParser, Encode, keyFunc, Decode.                   *)
(***************************************************************************)
New(alg, signKey, verifyKey) ==
  [signKey |-> signKey, verifyKey |-> verifyKey,
   signer |-> GetSigningMethod(alg), parser |-> NilParser]

NewWithParser(alg, parser, signKey, verifyKey) ==
  [signKey |-> signKey, verifyKey |-> verifyKey,
   signer |-> GetSigningMethod(alg), parser |-> parser]

\* Encode without line 118: the token keeps the empty Raw of jwt.New
EncodeNoRaw(a, claims) ==
  LET s == SignedString(a.signer, claims, a.signKey)
      t == [NewToken(EmptyStr) EXCEPT !.Method = a.signer,
                                      !.Header = NewHeader(a.signer),
                                      !.Claims = claims]
  IN [t |-> t, tokenString |-> s.str, err |-> s.err]

\* Encode without line 116: the token keeps the empty claims of jwt.New
EncodeNoClaims(a, claims) ==
  LET s == SignedString(a.signer, NoClaims, a.signKey)
      t == [NewToken(s.str) EXCEPT !.Method = a.signer,
                                   !.Header = NewHeader(a.signer)]
  IN [t |-> t, tokenString |-> s.str, err |-> s.err]

Encode(a, claims) ==
  LET s == SignedString(a.signer, claims, a.signKey)
      t == [NewToken(s.str) EXCEPT !.Method = a.signer,
                                   !.Header = NewHeader(a.signer),
                                   !.Claims = claims]
  IN [t |-> t, tokenString |-> s.str, err |-> s.err]

Decode(a, tokenString, clock) ==
  IF ~a.parser.isNil
  THEN ParserParse(a.parser, tokenString, a, clock)
  ELSE ParserParse(DefaultParser, tokenString, a, clock)

\* time.Now().UTC().Unix()
EpochNow(clock) == clock

(***************************************************************************)
(* net/http and context as the handler uses them.                          *)
(***************************************************************************)
\* url.Values.Get and http.Header.Get: "" when the name is absent
Get(values, name) == IF name \in DOMAIN values THEN values[name] ELSE EmptyStr

\* Request.Cookie(name)
Cookie(req, name) ==
  IF name \in DOMAIN req.cookies
  THEN [Value |-> req.cookies[name], err |-> NoErr]
  ELSE [Value |-> EmptyStr, err |-> "http: named cookie not present"]

Lower == <<"a","b","c","d","e","f","g","h","i","j","k","l","m",
           "n","o","p","q","r","s","t","u","v","w","x","y","z">>
Upper == <<"A","B","C","D","E","F","G","H","I","J","K","L","M",
           "N","O","P","Q","R","S","T","U","V","W","X","Y","Z">>

ToUpperByte(c) ==
  IF \E i \in 1..Len(Lower) : Lower[i] = c
  THEN Upper[CHOOSE i \in 1..Len(Lower) : Lower[i] = c]
  ELSE c

\* strings.ToUpper
ToUpper(s) == [i \in 1..Len(s) |-> ToUpperByte(s[i])]

\* a fresh http.ResponseWriter
NewResponseWriter == [status |-> 0, body |-> EmptyStr, calls |-> 0]

\* WriteHeader(code) alone: no body
HttpErrorStatusOnly(rw, text, code) ==
  [status |-> IF rw.status = 0 THEN code ELSE rw.status,
   body |-> rw.body,
   calls |-> rw.calls + 1]

\* http.Error(w, text, code): the status line, then text and a newline
HttpError(rw, text, code) ==
  [status |-> IF rw.status = 0 THEN code ELSE rw.status,
   body |-> rw.body \o text \o <<"\n">>,
   calls |-> rw.calls + 1]

\* error.Error()
ErrorText(e) == <<e>>

\* a context that holds the new value and forgets its parent
WithValueFresh(parent, key, val) == [k \in {key} |-> val]

\* context.WithValue: the new value answers for its key, the parent for
\* every other key
WithValue(parent, key, val) ==
  [k \in DOMAIN parent \cup {key} |-> IF k = key THEN val ELSE parent[k]]

(***************************************************************************)
(* The handler Handle(paramAliases...)(next) returns.                      *)
(***************************************************************************)
BEARER == <<"B","E","A","R","E","R">>

ProbeQuery(req) == Get(req.query, "jwt")

\* the loop without its break: the last non-empty alias wins
AliasLoopLast(req, aliases, i, tokenStr) ==
  LET full == {k \in i..Len(aliases) : Get(req.query, aliases[k]) # EmptyStr}
  IN IF full = {} THEN EmptyStr
     ELSE Get(req.query, aliases[CHOOSE k \in full : \A m \in full : m <= k])

RECURSIVE AliasLoop(_, _, _, _)
AliasLoop(req, aliases, i, tokenStr) ==
  IF i > Len(aliases) THEN tokenStr
  ELSE LET v == Get(req.query, aliases[i])
       IN IF v # EmptyStr THEN v ELSE AliasLoop(req, aliases, i + 1, v)

ProbeAliases(tokenStr, req, aliases) ==
  IF tokenStr = EmptyStr /\ Len(aliases) > 0
  THEN AliasLoop(req, aliases, 1, tokenStr)
  ELSE tokenStr

ProbeHeader(tokenStr, req) ==
  IF tokenStr = EmptyStr
  THEN LET bearer == Get(req.header, "Authorization")
       IN IF Len(bearer) > 7 /\ ToUpper(SubSeq(bearer, 1, 6)) = BEARER
          THEN SubSeq(bearer, 8, Len(bearer))
          ELSE tokenStr
  ELSE tokenStr

ProbeCookie(tokenStr, req) ==
  IF tokenStr = EmptyStr
  THEN LET cookie == Cookie(req, "jwt")
       IN IF cookie.err = NoErr THEN cookie.Value ELSE tokenStr
  ELSE tokenStr

\* the probes with the header consulted first
FindTokenHeaderFirst(req, aliases) ==
  LET h == ProbeHeader(EmptyStr, req)
      first == IF h # EmptyStr THEN h ELSE ProbeQuery(req)
  IN ProbeCookie(ProbeHeader(ProbeAliases(first, req, aliases), req), req)

\* lines 48-78: the candidate after the four probes
FindToken(req, aliases) ==
  ProbeCookie(ProbeHeader(ProbeAliases(ProbeQuery(req), req, aliases), req),
              req)

\* line 87 with the test skipped for a nil token
RejectedUnlessNil(d, signer) ==
  ~d.token.isNil /\ (d.err # NoErr \/ ~d.token.Valid \/ d.token.Method # signer)

\* line 87 without the comparison of methods
RejectedNoMethod(d, signer) == d.err # NoErr \/ ~d.token.Valid

\* line 87
Rejected(d, signer) ==
  d.err # NoErr \/ ~d.token.Valid \/ d.token.Method # signer

\* lines 93-99 with a failed type assertion treated as expiry
ExpiredUnlessInt(token, clock) ==
  \/ "exp" \notin DOMAIN token.Claims
  \/ token.Claims["exp"].type # "int64"
  \/ token.Claims["exp"].val < EpochNow(clock)

\* lines 93-99
Expired(token, clock) ==
  /\ "exp" \in DOMAIN token.Claims
  /\ token.Claims["exp"].type = "int64"
  /\ token.Claims["exp"].val < EpochNow(clock)

\* the whole of hfn: what it passed to Decode, what Decode returned, what it
\* wrote to w, and the contexts it called next with
hfn(a, aliases, context, rw, req, clock) ==
  LET tokenStr == FindToken(req, aliases)
      err0 == IF tokenStr = EmptyStr THEN errUnauthorized ELSE NoErr
      d == Decode(a, tokenStr, clock)
      base == [tokenStr |-> tokenStr, err0 |-> err0, decodeArgs |-> <<tokenStr>>,
               token |-> d.token, err |-> d.err, key |-> d.key, w |-> rw,
               next |-> <<>>]
  IN IF Rejected(d, a.signer)
     THEN [base EXCEPT !.w = HttpError(rw, ErrorText(errUnauthorized), 401)]
     ELSE IF Expired(d.token, clock)
     THEN [base EXCEPT !.w = HttpError(rw, ErrorText(errUnauthorized), 401)]
     ELSE [base EXCEPT !.next =
             <<WithValue(WithValue(context, "jwt", d.token.Raw),
                         "jwt.token", d.token)>>]

\* Handler(next) is Handle("")(next)
Handler(a, context, rw, req, clock) == hfn(a, <<"">>, context, rw, req, clock)

(***************************************************************************)
(* The authenticators, alias lists, requests and contexts of the model.    *)
(***************************************************************************)
ConfigAlgs == {"HS256", "RS256"}
SignKeys == {"k1", "priv1"}
VerifyKeys == {NilKey, EmptyKey, "k2", "pub1"}
JsonNumberParser == [isNil |-> FALSE, UseJSONNumber |-> TRUE]

Authenticators ==
  {New(alg, sk, vk) : alg \in ConfigAlgs, sk \in SignKeys, vk \in VerifyKeys}
  \cup {NewWithParser(alg, JsonNumberParser, sk, vk) :
          alg \in ConfigAlgs, sk \in SignKeys, vk \in VerifyKeys}

AliasNames == {"token", ""}
QueryNames == {"jwt"} \cup AliasNames

AliasLists == UNION {[1..n -> AliasNames] : n \in 0..MaxAliases}

NoCookies == [k \in {} |-> EmptyStr]
NoQuery == [k \in QueryNames |-> EmptyStr]
NoHeader == [k \in {"Authorization"} |-> EmptyStr]

Req(q, h, c) == [query |-> q, header |-> h, cookies |-> c]

NoRequest == Req(NoQuery, NoHeader, NoCookies)

Bearer(t) == <<"B","e","a","r","e","r"," ">> \o t

\* one token string on one carrier
Carried(t) ==
  { Req([NoQuery EXCEPT !["jwt"] = t], NoHeader, NoCookies),
    Req(NoQuery, [NoHeader EXCEPT !["Authorization"] = Bearer(t)], NoCookies),
    Req(NoQuery, NoHeader, [k \in {"jwt"} |-> t]) }

\* several carriers at once, each empty or holding one of two strings
tokA == SignedString("HS256", NoClaims, "k1").str
tokB == <<"x">>
Pool == {EmptyStr, tokA, tokB}

Authorizations ==
  { EmptyStr,
    Bearer(tokA),
    <<"b","e","a","r","e","r"," ">> \o tokA,
    <<"B","E","A","R","E","R"," ">> \o tokB,
    <<"B","e","a","r","e","r","X">> \o tokA,
    <<"B","e","a","r","e","r"," ">>,
    <<"B","e","a","r">>,
    <<"B","a","s","i","c"," ","x","y">> \o tokA }

Mixed ==
  { Req([k \in QueryNames |-> IF k = "jwt" THEN j
                              ELSE IF k = "token" THEN a ELSE b],
        [k \in {"Authorization"} |-> h], c) :
      j \in Pool, a \in Pool, b \in {EmptyStr, tokA}, h \in Authorizations,
      c \in {NoCookies, [k \in {"jwt"} |-> EmptyStr], [k \in {"jwt"} |-> tokB]} }

Requests == Mixed \cup UNION {Carried(t) : t \in TokenStrings}

\* incoming contexts: values set by earlier middleware
Contexts ==
  { [k \in {"user"} |-> <<"u">>],
    [k \in {"user", "jwt"} |-> IF k = "user" THEN <<"u">> ELSE <<"o","l","d">>] }

NoContext == [k \in {} |-> EmptyStr]

NoOut ==
  [tokenStr |-> EmptyStr, err0 |-> NoErr, decodeArgs |-> <<>>,
   token |-> NilToken, err |-> NoErr, key |-> NoKey, w |-> NewResponseWriter,
   next |-> <<>>]

(***************************************************************************)
(* Callers of the authenticator's API and concurrent requests: what they   *)
(* hold before anything happened.                                          *)
(***************************************************************************)
\* the goroutines that serve requests concurrently
Procs == {"p1", "p2"}

\* no Encode or Decode call has returned
NoCall ==
  [op |-> "none", claims |-> NoClaims,
   enc |-> [t |-> NilToken, tokenString |-> EmptyStr, err |-> NoErr],
   arg |-> EmptyStr,
   dec |-> [token |-> NilToken, key |-> NoKey, err |-> NoErr],
   at |-> 0]

\* the locals of hfn before line 48 declared them
NoLocals == [tokenStr |-> EmptyStr, err |-> NoErr, token |-> NilToken, i |-> 0]

\* a goroutine that serves no request
IdleProc ==
  [pc |-> "idle", req |-> NoRequest, ctx |-> NoContext,
   w |-> NewResponseWriter, next |-> <<>>, decodeArgs |-> <<>>, at |-> 0]

(***************************************************************************)
(* The state machine: one authenticator and one filter built at start-up,  *)
(* then requests served one after the other, the clock advancing between   *)
(* them.                                                                   *)
(***************************************************************************)
Init ==
  /\ \/ ja \in Authenticators /\ paramAliases = <<>>
     \/ ja = New("HS256", "k1", NilKey) /\ paramAliases \in AliasLists
  /\ now = 0
  /\ r = NoRequest
  /\ ctx = NoContext
  /\ pc = "idle"
  /\ out = NoOut
  /\ api = NoCall
  /\ procs = [p \in Procs |-> IdleProc]
  /\ mem = [p \in Procs |-> NoLocals]

Tick ==
  /\ pc = "idle"
  /\ now < MaxNow
  /\ now' = now + 1
  /\ UNCHANGED <<ja, paramAliases, r, ctx, pc, out, api, procs, mem>>

Receive ==
  /\ pc = "idle"
  /\ r' \in Requests
  /\ ctx' \in Contexts
  /\ pc' = "serving"
  /\ out' = NoOut
  /\ UNCHANGED <<ja, paramAliases, now, api, procs, mem>>

ServeHTTPC ==
  /\ pc = "serving"
  /\ out' = hfn(ja, paramAliases, ctx, NewResponseWriter, r, now)
  /\ pc' = "done"
  /\ UNCHANGED <<ja, paramAliases, now, r, ctx, api, procs, mem>>

Finish ==
  /\ pc = "done"
  /\ pc' = "idle"
  /\ r' = NoRequest
  /\ ctx' = NoContext
  /\ out' = NoOut
  /\ UNCHANGED <<ja, paramAliases, now, api, procs, mem>>

Next == Tick \/ Receive \/ ServeHTTPC \/ Finish

Spec == Init /\ [][Next]_vars

(***************************************************************************)
(* The authenticator shared by its callers: Encode and Decode are called   *)
(* on the one JwtAuth while the clock advances.                            *)
(***************************************************************************)
\* what callers pass to Encode: the claim sets, and one that cannot be
\* serialized
EncodeInputs == ClaimSets \cup {[k \in {"exp"} |-> Chan]}

\* what callers pass to Decode besides what Encode returned
DecodeInputs == Pool

\* t, tokenString, err := ja.Encode(claims)
EncodeCall ==
  /\ api.op = "none"
  /\ \E c \in EncodeInputs :
       api' = [NoCall EXCEPT !.op = "Encode", !.claims = c,
                             !.enc = Encode(ja, c), !.at = now]
  /\ UNCHANGED <<ja, paramAliases, now, r, ctx, pc, out, procs, mem>>

\* token, err := ja.Decode(tokenString), on the string Encode returned
DecodeEncoded ==
  /\ api.op = "Encode"
  /\ api' = [api EXCEPT !.op = "Decode", !.arg = api.enc.tokenString,
                        !.dec = Decode(ja, api.enc.tokenString, now),
                        !.at = now]
  /\ UNCHANGED <<ja, paramAliases, now, r, ctx, pc, out, procs, mem>>

\* token, err := ja.Decode(tokenString), on any other string
DecodeCall ==
  /\ api.op = "none"
  /\ \E t \in DecodeInputs :
       api' = [NoCall EXCEPT !.op = "Decode", !.arg = t,
                             !.dec = Decode(ja, t, now), !.at = now]
  /\ UNCHANGED <<ja, paramAliases, now, r, ctx, pc, out, procs, mem>>

\* the caller drops what the call returned
Discard ==
  /\ api.op # "none"
  /\ api' = NoCall
  /\ UNCHANGED <<ja, paramAliases, now, r, ctx, pc, out, procs, mem>>

NextApi == Tick \/ EncodeCall \/ DecodeEncoded \/ DecodeCall \/ Discard

SpecApi == Init /\ [][NextApi]_vars

(***************************************************************************)
(* Concurrent requests: net/http serves every request on a goroutine of    *)
(* its own, so invocations of hfn interleave statement by statement with   *)
(* each other and with Encode and Decode calls on the one authenticator.   *)
(***************************************************************************)
\* the requests served concurrently: no token at all; a token under the
\* empty query name and a malformed bearer token; a malformed token under
\* `token` and a token in the cookie
ConcRequests ==
  { NoRequest,
    Req([NoQuery EXCEPT ![""] = tokA],
        [NoHeader EXCEPT !["Authorization"] = Bearer(tokB)], NoCookies),
    Req([NoQuery EXCEPT !["token"] = tokB], NoHeader, [k \in {"jwt"} |-> tokA]) }

ConcContext == [k \in {"user"} |-> <<"u">>]

\* every invocation's locals live in one cell for all goroutines
SharedCell(p) == CHOOSE q \in Procs : TRUE

\* tokenStr, err and token are declared inside hfn (lines 48, 49, 86):
\* every invocation has its own
LocalCell(p) == p

Locals(p) == mem[LocalCell(p)]

\* the goroutine moves to pc with its locals set to l
Goto(p, to, l) ==
  /\ procs' = [procs EXCEPT ![p].pc = to]
  /\ mem' = [mem EXCEPT ![LocalCell(p)] = l]

\* the router calls hfn(ctx, w, r)
Accept(p) ==
  /\ procs[p].pc = "idle"
  /\ \E req \in ConcRequests :
       procs' = [procs EXCEPT ![p] = [IdleProc EXCEPT !.pc = "query",
                                                     !.req = req,
                                                     !.ctx = ConcContext]]
  /\ UNCHANGED <<ja, paramAliases, now, r, ctx, pc, out, api, mem>>

\* lines 48-52
QueryStep(p) ==
  /\ procs[p].pc = "query"
  /\ Goto(p, "aliases", [NoLocals EXCEPT !.tokenStr = ProbeQuery(procs[p].req)])
  /\ UNCHANGED <<ja, paramAliases, now, r, ctx, pc, out, api>>

\* line 55
AliasesStep(p) ==
  /\ procs[p].pc = "aliases"
  /\ IF Locals(p).tokenStr = EmptyStr /\ Len(paramAliases) > 0
     THEN Goto(p, "loop", [Locals(p) EXCEPT !.i = 1])
     ELSE Goto(p, "header", Locals(p))
  /\ UNCHANGED <<ja, paramAliases, now, r, ctx, pc, out, api>>

\* lines 56-61: one iteration of the range loop, or its end
LoopStep(p) ==
  /\ procs[p].pc = "loop"
  /\ LET l == Locals(p) IN
     IF l.i > Len(paramAliases)
     THEN Goto(p, "header", l)
     ELSE LET v == Get(procs[p].req.query, paramAliases[l.i])
          IN IF v # EmptyStr
             THEN Goto(p, "header", [l EXCEPT !.tokenStr = v])
             ELSE Goto(p, "loop", [l EXCEPT !.tokenStr = v, !.i = l.i + 1])
  /\ UNCHANGED <<ja, paramAliases, now, r, ctx, pc, out, api>>

\* lines 65-70
HeaderStep(p) ==
  /\ procs[p].pc = "header"
  /\ Goto(p, "cookie",
          [Locals(p) EXCEPT !.tokenStr = ProbeHeader(Locals(p).tokenStr,
                                                     procs[p].req)])
  /\ UNCHANGED <<ja, paramAliases, now, r, ctx, pc, out, api>>

\* lines 73-78
CookieStep(p) ==
  /\ procs[p].pc = "cookie"
  /\ Goto(p, "required",
          [Locals(p) EXCEPT !.tokenStr = ProbeCookie(Locals(p).tokenStr,
                                                     procs[p].req)])
  /\ UNCHANGED <<ja, paramAliases, now, r, ctx, pc, out, api>>

\* lines 81-83
RequiredStep(p) ==
  /\ procs[p].pc = "required"
  /\ Goto(p, "decode",
          IF Locals(p).tokenStr = EmptyStr
          THEN [Locals(p) EXCEPT !.err = errUnauthorized]
          ELSE Locals(p))
  /\ UNCHANGED <<ja, paramAliases, now, r, ctx, pc, out, api>>

\* lines 86-90
DecodeStep(p) ==
  /\ procs[p].pc = "decode"
  /\ LET l == Locals(p)
         d == Decode(ja, l.tokenStr, now)
     IN /\ mem' = [mem EXCEPT ![LocalCell(p)] =
                     [l EXCEPT !.token = d.token, !.err = d.err]]
        /\ procs' =
             [procs EXCEPT
                ![p].decodeArgs = Append(@, l.tokenStr),
                ![p].at = now,
                ![p].w = IF Rejected(d, ja.signer)
                         THEN HttpError(@, ErrorText(errUnauthorized), 401)
                         ELSE @,
                ![p].pc = IF Rejected(d, ja.signer) THEN "done" ELSE "expiry"]
  /\ UNCHANGED <<ja, paramAliases, now, r, ctx, pc, out, api>>

\* lines 93-99
ExpiryStep(p) ==
  /\ procs[p].pc = "expiry"
  /\ IF Expired(Locals(p).token, now)
     THEN procs' = [procs EXCEPT
                      ![p].w = HttpError(@, ErrorText(errUnauthorized), 401),
                      ![p].pc = "done"]
     ELSE procs' = [procs EXCEPT ![p].pc = "next"]
  /\ UNCHANGED <<ja, paramAliases, now, r, ctx, pc, out, api, mem>>

\* lines 101-104
NextStep(p) ==
  /\ procs[p].pc = "next"
  /\ procs' =
       [procs EXCEPT
          ![p].next = Append(@, WithValue(WithValue(procs[p].ctx, "jwt",
                                                    Locals(p).token.Raw),
                                          "jwt.token", Locals(p).token)),
          ![p].pc = "done"]
  /\ UNCHANGED <<ja, paramAliases, now, r, ctx, pc, out, api, mem>>

\* hfn has returned; the goroutine and its locals are gone
Return(p) ==
  /\ procs[p].pc = "done"
  /\ procs' = [procs EXCEPT ![p] = IdleProc]
  /\ mem' = [mem EXCEPT ![LocalCell(p)] = NoLocals]
  /\ UNCHANGED <<ja, paramAliases, now, r, ctx, pc, out, api>>

\* one statement of one invocation of hfn
Step(p) ==
  \/ QueryStep(p) \/ AliasesStep(p) \/ LoopStep(p) \/ HeaderStep(p)
  \/ CookieStep(p) \/ RequiredStep(p) \/ DecodeStep(p) \/ ExpiryStep(p)
  \/ NextStep(p)

NextConc ==
  \/ EncodeCall \/ DecodeEncoded \/ DecodeCall \/ Discard
  \/ \E p \in Procs : Accept(p) \/ Step(p) \/ Return(p)

SpecConc == Init /\ [][NextConc]_vars

\* the scheduler runs every goroutine that can take a step
FairConc == SpecConc /\ \A p \in Procs : WF_vars(Step(p))

(***************************************************************************)
(* Vocabulary of the properties, stated from the request and the           *)
(* authenticator alone.                                                    *)
(***************************************************************************)
Done == pc = "done"

\* the filter answered 401 once and did not call next
Answered401 == out.w.status = 401 /\ out.w.calls = 1 /\ out.next = <<>>

\* the filter called next once and wrote nothing
NextInvoked == Len(out.next) = 1 /\ out.w = NewResponseWriter

QueryOffer(req) == Get(req.query, "jwt")

AliasOffers(req, aliases) ==
  [i \in 1..Len(aliases) |-> Get(req.query, aliases[i])]

\* longer than seven bytes and "bearer" in any casing in the first six
BearerScheme(h) ==
  Len(h) > 7 /\ \A i \in 1..6 : h[i] \in {BEARER[i], Lower[CHOOSE n \in 1..26 : Upper[n] = BEARER[i]]}

HeaderOffer(req) ==
  LET h == Get(req.header, "Authorization")
  IN IF BearerScheme(h) THEN SubSeq(h, 8, Len(h)) ELSE EmptyStr

CookieOffer(req) ==
  IF "jwt" \in DOMAIN req.cookies THEN req.cookies["jwt"] ELSE EmptyStr

\* the four sources in probe order
Offers(req, aliases) ==
  <<QueryOffer(req)>> \o AliasOffers(req, aliases)
    \o <<HeaderOffer(req), CookieOffer(req)>>

NoOffer(req, aliases) ==
  \A i \in 1..Len(Offers(req, aliases)) : Offers(req, aliases)[i] = EmptyStr

\* the key the key-selection policy names
VerificationKey(a) ==
  IF a.verifyKey \notin {NilKey, EmptyKey} THEN a.verifyKey ELSE a.signKey

\* a signature made with signKey checks out under verifyKey
KeyVerifies(method, signKey, verifyKey) ==
  IF method \in HmacAlgs THEN KeyBytes(signKey) = KeyBytes(verifyKey)
  ELSE PublicOf(signKey) = verifyKey

SignedWithOtherKey(a, t) ==
  \E k \in Keys : /\ t \in SignedBy(a.signer, k)
                  /\ ~KeyVerifies(a.signer, k, VerificationKey(a))

\* the header segment of t names alg
Declares(t, alg) ==
  Len(t) > 0 /\ t[1] = EncodeSegment(HeaderText(NewHeader(alg)))

C2_WrongKeyRejected ==
  Done /\ SignedWithOtherKey(ja, out.tokenStr) =>
    /\ ~out.token.Valid
    /\ \A clock \in 0..MaxNow : ~Decode(ja, out.tokenStr, clock).token.Valid
    /\ Answered401

C2_Witness ==
  /\ Done /\ SignedWithOtherKey(ja, out.tokenStr)
  /\ out.err = "signature is invalid"
  /\ Answered401

(***************************************************************************)
(* C3: a candidate whose header names a signing method other than the      *)
(* configured one is answered 401 and never reaches next, also when        *)
(* Decode returned no error and a valid token.                             *)
(***************************************************************************)
C3_OtherMethodRejected ==
  Done /\ (\E alg \in HeaderAlgs : alg # ja.signer /\ Declares(out.tokenStr, alg))
    => Answered401

C3_Witness ==
  /\ Done /\ out.err = NoErr /\ out.token.Valid
  /\ out.token.Method # ja.signer
  /\ Declares(out.tokenStr, out.token.Method)
  /\ Answered401

(***************************************************************************)
(* Vocabulary for the claims on expiry, probe order and context.           *)
(***************************************************************************)
\* the candidate is what this authenticator's Encode returned for claims c
EncodedHere(c) ==
  /\ Encode(ja, c).err = NoErr
  /\ out.tokenStr = Encode(ja, c).tokenString

\* what the authenticator signs verifies under the key it selects
CorrectlySigning(a) == KeyVerifies(a.signer, a.signKey, VerificationKey(a))

IntExp(c) == "exp" \in DOMAIN c /\ c["exp"].type = "int64"

FutureNbf(c, clock) ==
  "nbf" \in DOMAIN c /\ c["nbf"].type = "int64" /\ c["nbf"].val > clock

FirstNonEmpty(seq) ==
  IF \E i \in 1..Len(seq) : seq[i] # EmptyStr
  THEN seq[CHOOSE i \in 1..Len(seq) :
             seq[i] # EmptyStr /\ \A j \in 1..(i - 1) : seq[j] = EmptyStr]
  ELSE EmptyStr

\* the first six bytes spell "bearer" in any casing and the seventh is a space
BearerSpacePrefix(h) ==
  /\ Len(h) >= 7
  /\ \A i \in 1..6 : h[i] \in {BEARER[i], Lower[CHOOSE n \in 1..26 : Upper[n] = BEARER[i]]}
  /\ h[7] = " "

(***************************************************************************)
(* C4 as stated: a token this authenticator encoded with an integer exp E  *)
(* and verifies is answered 401 if E < now and reaches next if E >= now.   *)
(***************************************************************************)
C4_ExpiryAsStated ==
  Done => \A c \in ClaimSets :
    IntExp(c) /\ EncodedHere(c) /\ CorrectlySigning(ja) =>
      /\ c["exp"].val < now => Answered401
      /\ c["exp"].val >= now => NextInvoked

(***************************************************************************)
(* C4 amended: a token this authenticator encoded with an integer exp E    *)
(* and verifies is answered 401 if E < now; it reaches next if E >= now    *)
(* and its claims hold no nbf later than now.                              *)
(***************************************************************************)
C4_Expiry ==
  Done => \A c \in ClaimSets :
    IntExp(c) /\ EncodedHere(c) /\ CorrectlySigning(ja) =>
      /\ c["exp"].val < now => Answered401
      /\ c["exp"].val >= now /\ ~FutureNbf(c, now) => NextInvoked

C4_Witness ==
  /\ Done
  /\ \E c \in ClaimSets :
       /\ IntExp(c) /\ EncodedHere(c) /\ CorrectlySigning(ja)
       /\ c["exp"].val = now /\ "nbf" \in DOMAIN c
  /\ NextInvoked

C6_BearerSpace ==
  Done /\ FirstNonEmpty(<<QueryOffer(r)>> \o AliasOffers(r, paramAliases)) = EmptyStr
    => LET h == Get(r.header, "Authorization")
       IN out.tokenStr =
            IF BearerSpacePrefix(h) /\ Len(h) > 7
            THEN SubSeq(h, 8, Len(h))
            ELSE CookieOffer(r)

(***************************************************************************)
(* C7: aliases are consulted only when the jwt parameter is empty; the     *)
(* first alias, in configured order, with a non-empty value is the         *)
(* candidate; if every alias is empty the header probe runs next.          *)
(***************************************************************************)
C7_AliasOrder ==
  Done =>
    LET j == QueryOffer(r)
        al == AliasOffers(r, paramAliases)
        full == {i \in 1..Len(al) : al[i] # EmptyStr}
    IN /\ j # EmptyStr => out.tokenStr = j
       /\ j = EmptyStr /\ full # {} =>
            out.tokenStr = al[CHOOSE i \in full : \A k \in full : i <= k]
       /\ j = EmptyStr /\ full = {} =>
            out.tokenStr = FirstNonEmpty(<<HeaderOffer(r), CookieOffer(r)>>)

C7_Witness ==
  /\ Done
  /\ Len(paramAliases) = 2
  /\ QueryOffer(r) = EmptyStr
  /\ LET al == AliasOffers(r, paramAliases)
     IN /\ al[1] # EmptyStr /\ al[2] # EmptyStr /\ al[1] # al[2]
        /\ out.tokenStr = al[1]

(***************************************************************************)
(* C8: the key handed to verification is verifyKey when verifyKey is       *)
(* non-empty and signKey when verifyKey is nil or empty, whatever method   *)
(* the token declares.                                                     *)
(***************************************************************************)
C8_KeySelection ==
  Done /\ out.key # NoKey =>
    /\ KeyLen(ja.verifyKey) > 0 => out.key = ja.verifyKey
    /\ KeyLen(ja.verifyKey) = 0 => out.key = ja.signKey
    /\ out.key = ja.signKey => ja.verifyKey \in {NilKey, EmptyKey}

C8_Witness ==
  /\ Done
  /\ ja.verifyKey = "k2" /\ out.key = "k2"
  /\ out.token.Method # ja.signer

(***************************************************************************)
(* C9 as stated: when next is called, Decode returned no error, the token  *)
(* is valid and of the configured method, the context holds the raw        *)
(* string under "jwt" and the token under "jwt.token", and every value of  *)
(* the incoming context is still readable.                                 *)
(***************************************************************************)
C9_ContextAsStated ==
  Done /\ Len(out.next) >= 1 =>
    /\ out.err = NoErr /\ out.token.Valid /\ out.token.Method = ja.signer
    /\ {"jwt", "jwt.token"} \subseteq DOMAIN out.next[1]
    /\ out.next[1]["jwt"] = out.token.Raw
    /\ out.next[1]["jwt"] = out.tokenStr
    /\ out.next[1]["jwt.token"] = out.token
    /\ \A k \in DOMAIN ctx :
         k \in DOMAIN out.next[1] /\ out.next[1][k] = ctx[k]

(***************************************************************************)
(* C9 amended: as stated, except that the values of the incoming context   *)
(* still readable are those under keys other than "jwt" and "jwt.token".   *)
(***************************************************************************)
C9_Context ==
  Done /\ Len(out.next) >= 1 =>
    /\ out.err = NoErr /\ out.token.Valid /\ out.token.Method = ja.signer
    /\ \A k \in DOMAIN ctx \ {"jwt", "jwt.token"} :
         k \in DOMAIN out.next[1] /\ out.next[1][k] = ctx[k]
    /\ {"jwt", "jwt.token"} \subseteq DOMAIN out.next[1]
    /\ out.next[1]["jwt"] = out.token.Raw
    /\ out.next[1]["jwt"] = out.tokenStr
    /\ out.next[1]["jwt.token"] = out.token

C9_Witness ==
  /\ Done /\ NextInvoked
  /\ "jwt" \in DOMAIN ctx
  /\ out.next[1]["user"] = ctx["user"]
  /\ out.next[1]["jwt"] = out.tokenStr

(***************************************************************************)
(* C10 as stated: every rejection, whatever its cause, is the response     *)
(* with status 401 and body "unauthorized token".                          *)
(***************************************************************************)
C10_UniformAsStated ==
  Done /\ out.next = <<>> =>
    out.w = [status |-> 401, body |-> <<"unauthorized token">>, calls |-> 1]

(***************************************************************************)
(* C10 amended: every rejection, whatever its cause, is the response with  *)
(* status 401 and body "unauthorized token" followed by a newline.         *)
(***************************************************************************)
C10_Uniform ==
  Done /\ out.next = <<>> =>
    out.w = [status |-> 401, body |-> <<"unauthorized token", "\n">>,
             calls |-> 1]

C10_Witness ==
  /\ Done /\ out.next = <<>>
  /\ out.err = "token is expired"
  /\ out.w.status = 401

(***************************************************************************)
(* Vocabulary for the claims on Encode and Decode.                         *)
(***************************************************************************)
\* a symmetric method with no verifyKey, or a matching asymmetric pair
MatchingKeys(a) ==
  \/ a.signer \in HmacAlgs /\ a.verifyKey \in {NilKey, EmptyKey}
  \/ a.signer \in RsaAlgs /\ a.signKey \in PrivKeys
       /\ a.verifyKey = PublicOf(a.signKey)

\* Decode has returned for the string a successful Encode(api.claims) returned
RoundTrip ==
  /\ api.op = "Decode"
  /\ ~api.enc.t.isNil
  /\ api.enc.err = NoErr
  /\ api.arg = api.enc.tokenString

\* a claim set as JSON reads it back under this authenticator's parser
ReadBack(a, c) ==
  [k \in DOMAIN c |->
     IF c[k].type = "string" THEN c[k]
     ELSE [type |-> IF ~a.parser.isNil /\ a.parser.UseJSONNumber
                    THEN "json.Number" ELSE "float64",
           val |-> c[k].val]]

IsNumber(c, name) ==
  name \in DOMAIN c /\ c[name].type \in {"int64", "float64", "json.Number"}

\* no numeric exp earlier than the clock, no numeric nbf later than it
InPeriod(c, clock) ==
  /\ IsNumber(c, "exp") => c["exp"].val >= clock
  /\ IsNumber(c, "nbf") => c["nbf"].val <= clock

(***************************************************************************)
(* C11 as stated: with matching keys, Decode of what Encode(C) returned    *)
(* gives no error, valid = true, the configured method and claims equal    *)
(* to C.                                                                   *)
(***************************************************************************)
C11_RoundTripAsStated ==
  RoundTrip /\ MatchingKeys(ja) =>
    /\ api.dec.err = NoErr
    /\ api.dec.token.Valid
    /\ api.dec.token.Method = ja.signer
    /\ api.dec.token.Claims = api.claims

(***************************************************************************)
(* C11: with matching keys, Decode of what a successful Encode(C)          *)
(* returned gives the configured method and the claims C as JSON reads     *)
(* them back (same keys, strings unchanged, every number a float64 or a    *)
(* json.Number of the same value); it gives no error and valid = true      *)
(* exactly when C has no numeric exp before the clock and no numeric nbf   *)
(* after it.                                                               *)
(***************************************************************************)
C11_RoundTrip ==
  RoundTrip /\ MatchingKeys(ja) =>
    /\ api.dec.token.Method = ja.signer
    /\ api.dec.token.Claims = ReadBack(ja, api.claims)
    /\ IF InPeriod(api.claims, api.at)
       THEN api.dec.err = NoErr /\ api.dec.token.Valid
       ELSE api.dec.err # NoErr /\ ~api.dec.token.Valid

C11_Witness ==
  /\ RoundTrip /\ MatchingKeys(ja)
  /\ ja.signer \in RsaAlgs
  /\ DOMAIN api.claims = {"exp", "nbf"}
  /\ api.claims["exp"].type = "int64"
  /\ api.dec.err = NoErr /\ api.dec.token.Valid
  /\ api.dec.token.Claims["exp"].type = "json.Number"
  /\ api.dec.token.Claims # api.claims

(***************************************************************************)
(* C12: a request whose candidate decodes without error, valid and with    *)
(* the configured method, and whose claims hold no exp or an exp that is   *)
(* not a number, is not rejected: next is invoked.                         *)
(***************************************************************************)
C12_NoExpAccepted ==
  /\ Done /\ out.err = NoErr /\ out.token.Valid
  /\ out.token.Method = ja.signer
  /\ ~IsNumber(out.token.Claims, "exp")
  => NextInvoked

C12_Witness ==
  /\ Done /\ out.err = NoErr /\ out.token.Valid
  /\ out.token.Method = ja.signer
  /\ "exp" \in DOMAIN out.token.Claims
  /\ out.token.Claims["exp"].type = "string"
  /\ NextInvoked

(***************************************************************************)
(* C13: the filter built by Handler(next) reaches, for every request, the  *)
(* outcome of Handle() with an empty alias list: the same candidate, the   *)
(* same response, the same calls of next; its candidate comes from the     *)
(* `jwt` query parameter, the bearer header or the `jwt` cookie only.      *)
(***************************************************************************)
C13_HandlerZeroAlias ==
  Done /\ paramAliases = <<"">> =>
    LET h == Handler(ja, ctx, NewResponseWriter, r, now)
        z == hfn(ja, <<>>, ctx, NewResponseWriter, r, now)
    IN /\ out = h
       /\ h.tokenStr = z.tokenStr
       /\ h.w = z.w
       /\ h.next = z.next
       /\ h.tokenStr \in {ProbeQuery(r), HeaderOffer(r), CookieOffer(r)}

(***************************************************************************)
(* Vocabulary for the claims on concurrent requests.                       *)
(***************************************************************************)
\* what hfn does with the request of p when nothing else runs
RunAlone(p) ==
  hfn(ja, paramAliases, procs[p].ctx, NewResponseWriter, procs[p].req,
      procs[p].at)

Finished(p) == procs[p].pc = "done"

OutcomeAsAlone ==
  \A p \in Procs :
    Finished(p) =>
      /\ procs[p].w = RunAlone(p).w
      /\ procs[p].next = RunAlone(p).next
      /\ procs[p].decodeArgs = RunAlone(p).decodeArgs

\* a step of one request leaves the locals, the response and the context
\* of every other request alone, and so does every Encode or Decode call
StepsApart ==
  /\ \A p \in Procs :
       procs'[p] # procs[p] =>
         \A q \in Procs \ {p} :
           procs'[q] = procs[q] /\ mem'[LocalCell(q)] = mem[LocalCell(q)]
  /\ api' # api => procs' = procs /\ mem' = mem

(***************************************************************************)
(* C14: with requests, Encode calls and Decode calls interleaved on one    *)
(* JwtAuth, no step changes the authenticator, no step of one request      *)
(* touches what another request reads, and every finished request has the  *)
(* outcome (401, or next called with its own token) it has when run alone. *)
(***************************************************************************)
C14_Isolation ==
  /\ []OutcomeAsAlone
  /\ [][ja' = ja /\ StepsApart]_vars

C14_Witness ==
  /\ Finished("p1")
  /\ Len(procs["p1"].next) = 1
  /\ procs["p1"].next[1]["jwt"] = tokA
  /\ procs["p2"].pc = "expiry"
  /\ procs["p2"].req # procs["p1"].req
  /\ mem[LocalCell("p2")].token.Raw = tokA
  /\ api.op = "Decode" /\ api.arg = tokB

(***************************************************************************)
(* C15: Decode is called only on a non-empty candidate; a request in       *)
(* which no probe found a candidate is answered 401 without any call of    *)
(* Decode.                                                                 *)
(***************************************************************************)
C15_DecodeOnlyWithCandidate ==
  Done =>
    /\ \A i \in 1..Len(out.decodeArgs) : out.decodeArgs[i] # EmptyStr
    /\ out.tokenStr = EmptyStr => out.decodeArgs = <<>> /\ Answered401

(***************************************************************************)
(* Vocabulary for the claim on termination.                                *)
(***************************************************************************)
\* the invocation has met a failure: its err is set or it wrote a response
Failure(p) ==
  procs[p].pc # "idle" /\ (Locals(p).err # NoErr \/ procs[p].w # NewResponseWriter)

SingleOutcome ==
  \A p \in Procs :
    Finished(p) =>
      \/ /\ procs[p].w.status = 401 /\ procs[p].w.calls = 1
         /\ procs[p].next = <<>>
      \/ /\ Len(procs[p].next) = 1
         /\ procs[p].w = NewResponseWriter

\* after a failure the invocation does nothing but return
NoStepAfterFailure ==
  \A p \in Procs :
    Failure(p) => procs'[p] = procs[p] \/ procs'[p] = IdleProc

Terminates == \A p \in Procs : (procs[p].pc # "idle") ~> Finished(p)

(***************************************************************************)
(* C16: every invocation of the filter terminates, for every alias list,   *)
(* in exactly one outcome: 401 written once and next never called, or      *)
(* next called once and nothing written; no step runs after the first      *)
(* failure.                                                                *)
(***************************************************************************)
C16_OneOutcome ==
  /\ []SingleOutcome
  /\ [][NoStepAfterFailure]_vars
  /\ Terminates

(***************************************************************************)
(* Vocabulary for the claim on Encode's errors.                            *)
(***************************************************************************)
\* the signing method does not take the authenticator's signKey: an RSA
\* method given something that is no PEM private key
SignerRejectsKey(a) == a.signer \in RsaAlgs /\ a.signKey \notin PrivKeys

\* Encode(api.claims) has returned
Encoded == api.op = "Encode"

EncodeReports ==
  Encoded =>
    IF SignerRejectsKey(ja) \/ JsonMarshalErr(api.claims) # NoErr
    THEN api.enc.err # NoErr /\ api.enc.tokenString = EmptyStr
    ELSE /\ api.enc.err = NoErr
         /\ api.enc.tokenString # EmptyStr
         /\ api.enc.t.Raw = api.enc.tokenString

(***************************************************************************)
(* C17: when the signing method rejects signKey or the claims cannot be    *)
(* serialized, Encode returns a non-nil error and the empty string;        *)
(* otherwise it returns a nil error and a token whose Raw is the returned  *)
(* string; no call changes the authenticator.                              *)
(***************************************************************************)
C17_EncodeErrors ==
  /\ []EncodeReports
  /\ [][ja' = ja]_vars

C17_Witness ==
  /\ Encoded
  /\ SignerRejectsKey(ja)
  /\ JsonMarshalErr(api.claims) = NoErr
  /\ api.enc.err # NoErr
  /\ api.enc.tokenString = EmptyStr
  /\ ~api.enc.t.isNil
====
